---- MODULE Spec2Model ----
(***************************************************************************)
(* Model of presigned-tx-test-middleware: the generic query dispatcher     *)
(* queryAny / getQueryService (src/src/index.ts) and the broadcast         *)
(* pipeline broadcastSignedTx with its response decoding                   *)
(* (src/unnamed/part_001, the cosmos-client module).                       *)
(*                                                                         *)
(* JavaScript values are records [t |-> type tag, v |-> payload], so that  *)
(* any two values can be compared.  A string built by a template literal   *)
(* is the sequence of its pieces (message tokens).                         *)
(***************************************************************************)
EXTENDS Integers, Sequences, FiniteSets, TLC

\* ------------------------------------------------------------------ bounds
\* Longest reqCandidates list passed to queryAny.
MaxCands == 2
\* Number of queryAny calls that may be in flight together.
NumQueryCalls == 1

\* Longest msgResponses list in a node result.
MaxMsgs == 2

\* Largest number of keys of a byte map handed to decimalBytesToUint8Array.
MaxKeys == 11

QCalls == 1..NumQueryCalls

\* ------------------------------------------------------------ JS values
Undefined == [t |-> "undefined", v |-> <<>>]
Null == [t |-> "null", v |-> <<>>]
\* An Error object with the given message (a sequence of message tokens).
Err(m) == [t |-> "Error", v |-> m]
\* A TypeError raised by the runtime: reading a property of null/undefined.
TypeErr == [t |-> "Error", v |-> <<"Cannot read properties of null or undefined">>]
\* A plain object identified by its content.
Obj(c) == [t |-> "object", v |-> c]

\* x ?? y tests exactly this.
\* No value was caught.
NothingCaught == [t |-> "nothing", v |-> <<>>]

IsNullish(x) == x.t \in {"undefined", "null"}

\* ------------------------------------------------------- query services
\* A service instance: its own enumerable properties in insertion order
\* (what Object.keys sees) and the members it inherits through its prototype
\* chain (what a property read service[name] also sees).  callable is
\* typeof member === 'function'.
RegService ==
  [own   |-> << [name |-> "rpc", callable |-> FALSE],
                [name |-> "GetRegistry", callable |-> TRUE],
                [name |-> "Params", callable |-> TRUE] >>,
   proto |-> { [name |-> "toString", callable |-> TRUE] }]

\* A service class that keeps its methods on the prototype.
ProtoService ==
  [own   |-> << [name |-> "rpc", callable |-> FALSE] >>,
   proto |-> { [name |-> "GetRegistry", callable |-> TRUE],
               [name |-> "toString", callable |-> TRUE] }]

Services == {RegService, ProtoService}

MethodNames == {"GetRegistry", "rpc", "toString", "NoSuchMethod"}

OwnMembers(service) == {service.own[i] : i \in 1..Len(service.own)}

\* const fn = service[methodName]; typeof fn === 'function'
\* A property read finds own members first, then the prototype chain.
ResolvesCallable(service, methodName) ==
  IF \E m \in OwnMembers(service) : m.name = methodName
    THEN \E m \in OwnMembers(service) : m.name = methodName /\ m.callable
    ELSE \E m \in service.proto : m.name = methodName /\ m.callable

\* Keep the elements of s that satisfy Test, in order (Array.prototype.filter).
RECURSIVE FilterCallable(_)
FilterCallable(s) ==
  IF s = <<>> THEN <<>>
  ELSE IF Head(s).callable
         THEN <<Head(s).name>> \o FilterCallable(Tail(s))
         ELSE FilterCallable(Tail(s))

\* Object.keys(service).filter(k => typeof service[k] === 'function')
AvailableMethods(service) == FilterCallable(service.own)

\* available.join(', ')
RECURSIVE Join(_)
Join(names) ==
  IF names = <<>> THEN <<>>
  ELSE IF Len(names) = 1 THEN names
  ELSE <<Head(names), ", ">> \o Join(Tail(names))

\* new Error(`Method '${methodName}' not found. Available: ${available.join(', ')}`)
MethodNotFoundError(service, methodName) ==
  Err(<<"Method '", methodName, "' not found. Available: ">>
      \o Join(AvailableMethods(service)))

AllFailedError == Err(<<"All request candidates failed.">>)

\* throw lastError ?? new Error('All request candidates failed.')
ThrownAfterLoop(lastError) ==
  IF IsNullish(lastError) THEN AllFailedError ELSE lastError

\* What the node can answer to candidate i: a response, or a rejection with an
\* Error, or a rejection with no reason (Promise.reject()).
CandResponse(i) == Obj(<<"response to candidate", ToString(i)>>)
CandError(i) == Err(<<"rejected candidate", ToString(i)>>)
CandFailures(i) == {CandError(i), Undefined}

ConnectError == Err(<<"connect ECONNREFUSED">>)
CtorError == Err(<<"service constructor failed">>)

NoOutcome == [kind |-> "none", val |-> Undefined]
Returned(x) == [kind |-> "return", val |-> x]
Thrown(x) == [kind |-> "throw", val |-> x]

VARIABLES
  qpc,          \* position of each queryAny call
  qService,     \* the service instance built by getQueryService
  qMethod,      \* methodName
  qCands,       \* reqCandidates (candidate i is request number i)
  qIdx,         \* index of the candidate being awaited
  qLastError,   \* the local lastError
  qLog,         \* the invocations of fn made so far, with what each produced
  qConn,        \* the Tendermint connection of the call: none, open, closed
  qConnects,    \* number of Tendermint37Client.connect attempts
  qCloses,      \* number of times close() (tm.disconnect) was invoked
  qOutcome      \* what the call returned or threw

qvars == <<qpc, qService, qMethod, qCands, qIdx, qLastError, qLog, qConn,
           qConnects, qCloses, qOutcome>>


VARIABLES
  bpc,            \* position of the broadcastSignedTx call
  bHex,           \* signedTxHex
  bRegistry,      \* messageRegistry argument
  bTxBytes,       \* the local txBytes
  bConn,          \* the StargateClient connection: none, open, closed
  bConnects,      \* number of StargateClient.connect attempts
  bSubmitted,     \* the byte sequences handed to client.broadcastTx
  bResult,        \* what client.broadcastTx resolved with
  bDecoderCalls,  \* the decoder functions invoked, by typeUrl
  bCaught,        \* the value the catch block of broadcastSignedTx received
  bOutcome        \* what the call returned or threw

bvars == <<bpc, bHex, bRegistry, bTxBytes, bConn, bConnects, bSubmitted,
           bResult, bDecoderCalls, bCaught, bOutcome>>

VARIABLES
  cpc,            \* position of a decimalBytesToUint8Array call
  cMap,           \* its argument decimalArray
  cBytes          \* the Uint8Array it returned

cvars == <<cpc, cMap, cBytes>>

VARIABLES
  hpc,            \* position of the POST /api/upload/create-presigned handler
  hBody,          \* req.body.signedTxHex
  hCalls,         \* number of broadcastSignedTx calls the handler made
  hResponses,     \* the responses the POST handler sent
  gResponses      \* the responses each GET /get/create-presigned/GetRegistry handler sent

hvars == <<hpc, hBody, hCalls, hResponses, gResponses>>

VARIABLE
  registryEntries \* the entries of the process-wide messageRegistry Map

QInit ==
  /\ qpc = [q \in QCalls |-> "idle"]
  /\ qService = [q \in QCalls |-> RegService]
  /\ qMethod = [q \in QCalls |-> ""]
  /\ qCands = [q \in QCalls |-> <<>>]
  /\ qIdx = [q \in QCalls |-> 0]
  /\ qLastError = [q \in QCalls |-> Undefined]
  /\ qLog = [q \in QCalls |-> <<>>]
  /\ qConn = [q \in QCalls |-> "none"]
  /\ qConnects = [q \in QCalls |-> 0]
  /\ qCloses = [q \in QCalls |-> 0]
  /\ qOutcome = [q \in QCalls |-> NoOutcome]

\* queryAny(ServiceCtor, methodName, reqCandidates) is entered with a service
\* s, a method name m and n candidates: getQueryService starts
\* Tendermint37Client.connect.
QBegin(q, s, m, n) ==
  /\ qService' = [qService EXCEPT ![q] = s]
  /\ qMethod' = [qMethod EXCEPT ![q] = m]
  /\ qCands' = [qCands EXCEPT ![q] = [i \in 1..n |-> i]]
  /\ qConnects' = [qConnects EXCEPT ![q] = @ + 1]
  /\ qpc' = [qpc EXCEPT ![q] = "connecting"]
  /\ UNCHANGED <<qIdx, qLastError, qLog, qConn, qCloses, qOutcome>>

\* A caller other than the HTTP handler calls queryAny.
QStart(q) ==
  /\ qpc[q] = "idle"
  /\ \E s \in Services, m \in MethodNames, n \in 0..MaxCands : QBegin(q, s, m, n)
  /\ UNCHANGED <<bvars, cvars, hvars, registryEntries>>

Pending == [t |-> "pending", v |-> <<>>]

\* The log with the pending invocation (its last entry) completed by res.
Completed(log, res) == [log EXCEPT ![Len(log)].res = res]

\* finally { close() } and the end of the call with the given outcome.
QFinish(q, outcome, log, lastErr) ==
  /\ qConn' = [qConn EXCEPT ![q] = "closed"]
  /\ qCloses' = [qCloses EXCEPT ![q] = @ + 1]
  /\ qOutcome' = [qOutcome EXCEPT ![q] = outcome]
  /\ qLog' = [qLog EXCEPT ![q] = log]
  /\ qLastError' = [qLastError EXCEPT ![q] = lastErr]
  /\ qpc' = [qpc EXCEPT ![q] = "done"]
  /\ UNCHANGED qIdx

\* A loop that steps over a candidate.
NextIndexSkipping(i) == i + 2

\* for (const req of reqCandidates): the position after position i.
NextIndex(i) == i + 1

\* The for loop resumed after candidate i failed (i = 0: the loop is entered):
\* the next candidate is invoked and awaited, or the loop is over and
\* `throw lastError ?? new Error(...)` runs, then the finally block.
QLoop(q, i, lastErr, log) ==
  IF NextIndex(i) <= Len(qCands[q])
    THEN /\ qIdx' = [qIdx EXCEPT ![q] = NextIndex(i)]
         /\ qLog' = [qLog EXCEPT ![q] =
                       Append(log, [cand |-> qCands[q][NextIndex(i)], res |-> Pending])]
         /\ qLastError' = [qLastError EXCEPT ![q] = lastErr]
         /\ qConn' = [qConn EXCEPT ![q] = "open"]
         /\ qpc' = [qpc EXCEPT ![q] = "awaiting"]
         /\ UNCHANGED <<qCloses, qOutcome>>
    ELSE QFinish(q, Thrown(ThrownAfterLoop(lastErr)), log, lastErr)

\* A dispatcher that invokes the release function after a rejected connect.
QConnectFailClosing(q) ==
  /\ qpc[q] = "connecting"
  /\ qOutcome' = [qOutcome EXCEPT ![q] = Thrown(ConnectError)]
  /\ qCloses' = [qCloses EXCEPT ![q] = @ + 1]
  /\ qpc' = [qpc EXCEPT ![q] = "done"]
  /\ UNCHANGED <<qService, qMethod, qCands, qIdx, qLastError, qLog, qConn,
                 qConnects>>
  /\ UNCHANGED <<bvars, cvars, hvars, registryEntries>>

\* Tendermint37Client.connect rejects: the error leaves getQueryService and
\* queryAny (the await is outside the try block).
QConnectFail(q) ==
  /\ qpc[q] = "connecting"
  /\ qOutcome' = [qOutcome EXCEPT ![q] = Thrown(ConnectError)]
  /\ qpc' = [qpc EXCEPT ![q] = "done"]
  /\ UNCHANGED <<qService, qMethod, qCands, qIdx, qLastError, qLog, qConn,
                 qConnects, qCloses>>
  /\ UNCHANGED <<bvars, cvars, hvars, registryEntries>>

\* The connection is open, and new QueryClient / createProtobufRpcClient /
\* new ServiceCtor throws: the error leaves getQueryService before close exists.
QBuildFail(q) ==
  /\ qpc[q] = "connecting"
  /\ qConn' = [qConn EXCEPT ![q] = "open"]
  /\ qOutcome' = [qOutcome EXCEPT ![q] = Thrown(CtorError)]
  /\ qpc' = [qpc EXCEPT ![q] = "done"]
  /\ UNCHANGED <<qService, qMethod, qCands, qIdx, qLastError, qLog,
                 qConnects, qCloses>>
  /\ UNCHANGED <<bvars, cvars, hvars, registryEntries>>

\* The connection is open and the service is built: the method is resolved,
\* and the loop is entered (its first candidate invoked) in the same turn.
QConnected(q) ==
  /\ qpc[q] = "connecting"
  /\ IF ~ResolvesCallable(qService[q], qMethod[q])
       THEN QFinish(q, Thrown(MethodNotFoundError(qService[q], qMethod[q])),
                    <<>>, Undefined)
       ELSE QLoop(q, 0, Undefined, <<>>)
  /\ UNCHANGED <<qService, qMethod, qCands, qConnects>>
  /\ UNCHANGED <<bvars, cvars, hvars, registryEntries>>

\* return await fn.call(service, req): the awaited call resolves.
QCandOk(q) ==
  /\ qpc[q] = "awaiting"
  /\ QFinish(q, Returned(CandResponse(qCands[q][qIdx[q]])),
             Completed(qLog[q], CandResponse(qCands[q][qIdx[q]])), qLastError[q])
  /\ UNCHANGED <<qService, qMethod, qCands, qConnects>>
  /\ UNCHANGED <<bvars, cvars, hvars, registryEntries>>

\* catch (e) { lastError = e; } and the loop goes on.
QCandFail(q) ==
  /\ qpc[q] = "awaiting"
  /\ \E e \in CandFailures(qCands[q][qIdx[q]]) :
       QLoop(q, qIdx[q], e, Completed(qLog[q], e))
  /\ UNCHANGED <<qService, qMethod, qCands, qConnects>>
  /\ UNCHANGED <<bvars, cvars, hvars, registryEntries>>

QNext ==
  \E q \in QCalls :
    \/ QStart(q)
    \/ QConnectFail(q)
    \/ QBuildFail(q)
    \/ QConnected(q)
    \/ QCandOk(q)
    \/ QCandFail(q)

\* ================================================================ broadcast
\* An optional field: <<>> when missing, <<x>> when present.
Missing == <<>>
Some(x) == <<x>>
IsMissing(o) == o = <<>>

\* `${x}` of an optional string.
Str(o) == IF IsMissing(o) THEN "undefined" ELSE o[1]

\* error.message of a thrown value that is not null/undefined: a sequence of
\* tokens, <<>> for the empty string.
MessageOf(x) == x.v

\* ----------------------------------------------------------------- hex
LowerHex == <<"0", "1", "2", "3", "4", "5", "6", "7", "8", "9",
              "a", "b", "c", "d", "e", "f">>
UpperHex == <<"A", "B", "C", "D", "E", "F">>

\* The value of a hex digit, -1 for any other character.
HexValue(c) ==
  IF \E i \in 1..Len(LowerHex) : LowerHex[i] = c
    THEN (CHOOSE i \in 1..Len(LowerHex) : LowerHex[i] = c) - 1
  ELSE IF \E i \in 1..Len(UpperHex) : UpperHex[i] = c
    THEN (CHOOSE i \in 1..Len(UpperHex) : UpperHex[i] = c) + 9
  ELSE -1

\* signedTxHex.replace(/^0x/, "")
Strip0x(s) ==
  IF Len(s) >= 2 /\ s[1] = "0" /\ s[2] = "x" THEN SubSeq(s, 3, Len(s)) ELSE s

\* Buffer.from(s, "hex"): whole pairs of hex digits are decoded from the left;
\* decoding stops, without an error, at the first pair that is incomplete or
\* holds a character that is no hex digit.
RECURSIVE HexDecode(_)
HexDecode(s) ==
  IF Len(s) < 2 THEN <<>>
  ELSE IF HexValue(s[1]) < 0 \/ HexValue(s[2]) < 0 THEN <<>>
  ELSE <<16 * HexValue(s[1]) + HexValue(s[2])>> \o HexDecode(SubSeq(s, 3, Len(s)))

\* const txBytes = Buffer.from(signedTxHex.replace(/^0x/, ""), "hex")
TxBytesOf(hex) == HexDecode(Strip0x(hex))

\* A test that only catches a missing argument, not the empty string.
IsEmptyHexOnlyMissing(hex) == FALSE

\* if (!signedTxHex)
IsEmptyHex(hex) == hex = <<>>

\* The hex strings a caller passes, as sequences of characters.
HexInputs ==
  { <<>>,
    <<"0", "x">>,
    <<"a", "b">>,
    <<"0", "x", "A", "b", "1", "2">>,
    <<"a", "b", "c">>,
    <<"a", "b", "z", "z", "1", "2">>,
    <<"z", "z">> }

\* ------------------------------------------------------------ registries
RegisteredUrl == "/elandnode.reg.v1.MsgRegisterLandRegistryResponse"
MalformedUrl == "/test.v1.MsgDecoderThrowsError"
RejectingUrl == "/test.v1.MsgDecoderThrowsUndefined"
UnknownUrl == "/test.v1.MsgNotRegistered"

\* messageRegistry of index.ts: one decoder, a generated protobuf decode.
messageRegistry == { [typeUrl |-> RegisteredUrl, decoder |-> "decode"] }

\* A registry whose decoders show every behaviour of a decoder function:
\* returning a value, throwing an Error, throwing undefined.
TestRegistry ==
  { [typeUrl |-> RegisteredUrl, decoder |-> "decode"],
    [typeUrl |-> MalformedUrl, decoder |-> "throwError"],
    [typeUrl |-> RejectingUrl, decoder |-> "throwUndefined"] }

NoRegistry == [given |-> FALSE, entries |-> {}]
Registry(entries) == [given |-> TRUE, entries |-> entries]

\* The third argument of broadcastSignedTx.
RegistryInputs == {NoRegistry, Registry(messageRegistry), Registry(TestRegistry)}

DecodeFailure == Err(<<"index out of range">>)

\* decoder(messageBytes): what calling the decoder function does.
RunDecoder(decoder, bytes) ==
  CASE decoder = "decode" -> Returned([t |-> "decoded", bytes |-> bytes])
    [] decoder = "throwError" -> Thrown(DecodeFailure)
    [] decoder = "throwUndefined" -> Thrown(Undefined)

\* messageRegistry.get(typeUrl): missing when there is no decoder.
Lookup(entries, typeUrl) ==
  IF ~IsMissing(typeUrl) /\ (\E e \in entries : e.typeUrl = typeUrl[1])
    THEN Some((CHOOSE e \in entries : e.typeUrl = typeUrl[1]).decoder)
    ELSE Missing

\* { error, rawBytes: Array.from(messageBytes) }
Placeholder(msg, bytes) == [t |-> "placeholder", error |-> msg, rawBytes |-> bytes]

\* decodeProtobufMessage(typeUrl, messageBytes, messageRegistry).  In the catch
\* block error.message is read from whatever the decoder threw: reading it
\* from null or undefined raises a TypeError that leaves the function.
decodeProtobufMessage(typeUrl, bytes, entries) ==
  LET decoder == Lookup(entries, typeUrl) IN
  IF IsMissing(decoder)
    THEN Returned(Placeholder(<<"Unknown message type: ", Str(typeUrl)>>, bytes))
    ELSE LET r == RunDecoder(decoder[1], bytes) IN
         IF r.kind = "return" THEN r
         ELSE IF IsNullish(r.val) THEN Thrown(TypeErr)
         ELSE Returned(Placeholder(<<"Failed to decode: ">> \o MessageOf(r.val), bytes))

\* ------------------------------------------------- byte-map reconstruction
\* A byte map is the sequence of its entries [k |-> key, v |-> value] in the
\* order Object.keys enumerates them.  A key is a property name: a decimal
\* string, held as the sequence of its digits ("10" is <<1, 0>>).

\* Number(key) of a decimal string.
RECURSIVE NumberOf(_)
NumberOf(digits) ==
  IF digits = <<>> THEN 0
  ELSE 10 * NumberOf(SubSeq(digits, 1, Len(digits) - 1)) + digits[Len(digits)]

\* String(n): the property name a number key is read under.
RECURSIVE DigitsOf(_)
DigitsOf(n) ==
  IF n < 10 THEN <<n>> ELSE DigitsOf(n \div 10) \o <<n % 10>>

\* Dictionary order of two digit strings.
RECURSIVE StringBefore(_, _)
StringBefore(s, t) ==
  IF t = <<>> THEN FALSE
  ELSE IF s = <<>> THEN TRUE
  ELSE IF Head(s) # Head(t) THEN Head(s) < Head(t)
  ELSE StringBefore(Tail(s), Tail(t))

\* The order of .sort() without a comparator: by the numbers' decimal strings.
LexicalBefore(a, b) == StringBefore(DigitsOf(a), DigitsOf(b))

\* (a, b) => a - b is negative: a sorts before b.
NumericBefore(a, b) == a < b

RECURSIVE InsertSorted(_, _)
InsertSorted(k, sorted) ==
  IF sorted = <<>> THEN <<k>>
  ELSE IF NumericBefore(k, Head(sorted)) THEN <<k>> \o sorted
  ELSE <<Head(sorted)>> \o InsertSorted(k, Tail(sorted))

\* Object.keys(decimalArray).map(Number).sort((a, b) => a - b)
RECURSIVE SortedKeys(_)
SortedKeys(entries) ==
  IF entries = <<>> THEN <<>>
  ELSE InsertSorted(NumberOf(Head(entries).k), SortedKeys(Tail(entries)))

\* decimalArray[key]: the value under the property named String(key); a
\* missing property reads undefined, which a Uint8Array stores as 0.
ValueAt(entries, key) ==
  IF \E i \in 1..Len(entries) : entries[i].k = DigitsOf(key)
    THEN entries[CHOOSE i \in 1..Len(entries) : entries[i].k = DigitsOf(key)].v
    ELSE 0

\* new Uint8Array(keys.map(key => decimalArray[key])): each value is stored
\* modulo 256.
decimalBytesToUint8Array(entries) ==
  LET keys == SortedKeys(entries) IN
  [i \in 1..Len(keys) |-> ValueAt(entries, keys[i]) % 256]

\* ------------------------------------------------------------ node results
NoValue == [t |-> "missing", entries |-> <<>>]
ByteMap(entries) == [t |-> "map", entries |-> entries]

\* One element of msgResponses: an object with optional typeUrl and value,
\* or null.
Element(typeUrl, value) == [t |-> "object", typeUrl |-> typeUrl, value |-> value]
NullElement == [t |-> "null", typeUrl |-> Missing, value |-> NoValue]

MsgElements ==
  { Element(Some(RegisteredUrl), ByteMap(<<[k |-> <<0>>, v |-> 10], [k |-> <<1>>, v |-> 20]>>)),
    Element(Some(UnknownUrl), ByteMap(<<[k |-> <<0>>, v |-> 7]>>)),
    Element(Some(MalformedUrl), ByteMap(<<[k |-> <<0>>, v |-> 1]>>)),
    Element(Some(RejectingUrl), ByteMap(<<>>)),
    Element(Some(RegisteredUrl), NoValue),
    Element(Missing, NoValue),
    NullElement }

MsgLists == UNION { [1..n -> MsgElements] : n \in 0..MaxMsgs }

NoMsgResponses == [t |-> "missing", items |-> <<>>]
NotAnArray == [t |-> "object", items |-> <<>>]
MsgArray(items) == [t |-> "array", items |-> items]

MsgResponsesShapes == {NoMsgResponses, NotAnArray} \cup {MsgArray(l) : l \in MsgLists}

\* The three fields the transaction hash may be under.
HashShapes ==
  { [transactionHash |-> a, txhash |-> b, hash |-> c] :
      a \in {Missing, Some("HASH-A")},
      b \in {Missing, Some("HASH-B")},
      c \in {Missing, Some("HASH-C")} }
  \cup { [transactionHash |-> Some(""), txhash |-> Some("HASH-B"), hash |-> Missing] }

NodeResult(code, rawLog, hashes, msgResponses) ==
  [code |-> code, rawLog |-> rawLog, transactionHash |-> hashes.transactionHash,
   txhash |-> hashes.txhash, hash |-> hashes.hash, msgResponses |-> msgResponses]

RejectionCodes == {5, 11}
RawLogs == {Some("insufficient funds"), Missing}

AcceptedResults ==
  { NodeResult(0, Missing, h, m) : h \in HashShapes, m \in MsgResponsesShapes }

RejectedResults ==
  { NodeResult(c, l, h, MsgArray(<<Element(Some(RegisteredUrl), ByteMap(<<>>))>>)) :
      c \in RejectionCodes, l \in RawLogs,
      h \in {[transactionHash |-> Some("HASH-A"), txhash |-> Missing, hash |-> Missing]} }

\* What client.broadcastTx can resolve with.
NodeResults == AcceptedResults \cup RejectedResults

NoResult == [none |-> TRUE]

\* What StargateClient.connect and client.broadcastTx can reject with.
ConnectFailures == {ConnectError, Err(<<>>)}
BroadcastFailures == {Err(<<"request timed out">>), Undefined}

\* ------------------------------------------------ extractAndDecodeMessages
DecodedMessage(typeUrl, decodedValue) == [typeUrl |-> typeUrl, decodedValue |-> decodedValue]

\* msgResponse.typeUrl || 'unknown'
TypeUrlOrUnknown(typeUrl) ==
  IF IsMissing(typeUrl) \/ typeUrl = Some("") THEN Some("unknown") ELSE typeUrl

\* The entry the catch block of the loop pushes for a caught error.
FailedEntry(el, error) ==
  DecodedMessage(TypeUrlOrUnknown(el.typeUrl),
                 [t |-> "errorOnly", error |-> MessageOf(error)])

\* The body of the for loop of extractAndDecodeMessages for one msgResponse:
\* the entry it pushes, or the error that leaves the loop.  msgResponse.typeUrl
\* of a null element raises a TypeError in the try block and again in the
\* catch block; Object.keys of a missing value raises a TypeError, caught.
ProcessMsgResponse(el, entries) ==
  IF el.t = "null" THEN Thrown(TypeErr)
  ELSE IF el.value.t = "missing" THEN Returned(FailedEntry(el, TypeErr))
  ELSE LET d == decodeProtobufMessage(el.typeUrl,
                                      decimalBytesToUint8Array(el.value.entries),
                                      entries) IN
       IF d.kind = "return" THEN Returned(DecodedMessage(el.typeUrl, d.val))
       ELSE IF IsNullish(d.val) THEN Thrown(TypeErr)
       ELSE Returned(FailedEntry(el, d.val))

RECURSIVE DecodeAll(_, _, _)
DecodeAll(items, entries, acc) ==
  IF items = <<>> THEN Returned(acc)
  ELSE LET r == ProcessMsgResponse(Head(items), entries) IN
       IF r.kind = "throw" THEN r
       ELSE DecodeAll(Tail(items), entries, Append(acc, r.val))

\* The loop without the guard on msgResponses: iterating a missing or
\* non-iterable field raises a TypeError.
extractAndDecodeUnguarded(result, entries) ==
  IF result.msgResponses.t # "array" THEN Thrown(TypeErr)
  ELSE DecodeAll(result.msgResponses.items, entries, <<>>)

\* extractAndDecodeMessages(result, messageRegistry)
extractAndDecodeMessages(result, entries) ==
  IF result.msgResponses.t # "array" THEN Returned(<<>>)
  ELSE DecodeAll(result.msgResponses.items, entries, <<>>)

\* The decoder functions extractAndDecodeMessages invokes, by typeUrl, in order.
RECURSIVE DecoderCalls(_, _)
DecoderCalls(items, entries) ==
  IF items = <<>> THEN <<>>
  ELSE LET el == Head(items) IN
       IF el.t = "null" THEN <<>>
       ELSE IF el.value.t = "missing" \/ IsMissing(Lookup(entries, el.typeUrl))
         THEN DecoderCalls(Tail(items), entries)
       ELSE <<el.typeUrl[1]>> \o DecoderCalls(Tail(items), entries)

\* -------------------------------------------------------- broadcastSignedTx
\* A catch block that drops the caught message.
BroadcastCatchGeneric(err) == Err(<<"Broadcast failed">>)

\* catch (err) { throw new Error(err.message || "Broadcast failed"); }
BroadcastCatch(err) ==
  IF IsNullish(err) THEN TypeErr
  ELSE Err(IF MessageOf(err) = <<>> THEN <<"Broadcast failed">> ELSE MessageOf(err))

RequiredError == Err(<<"signedTxHex is required">>)

\* A rejection test that looks at the log instead of the code.
IsRejectedByLog(result) == ~IsMissing(result.rawLog)

\* if (result.code !== 0)
IsRejected(result) == result.code # 0

\* new Error(`Broadcast failed (code ${result.code}): ${result.rawLog}`)
RejectionError(result) ==
  Err(<<"Broadcast failed (code ", ToString(result.code), "): ", Str(result.rawLog)>>)

\* The three fields consulted in the opposite order.
TxHashOfReversed(result) ==
  IF ~IsMissing(result.hash) THEN result.hash[1]
  ELSE IF ~IsMissing(result.txhash) THEN result.txhash[1]
  ELSE IF ~IsMissing(result.transactionHash) THEN result.transactionHash[1]
  ELSE ""

\* result.transactionHash ?? result.txhash ?? result.hash ?? ""
TxHashOf(result) ==
  IF ~IsMissing(result.transactionHash) THEN result.transactionHash[1]
  ELSE IF ~IsMissing(result.txhash) THEN result.txhash[1]
  ELSE IF ~IsMissing(result.hash) THEN result.hash[1]
  ELSE ""

NotDecoded == [given |-> FALSE, list |-> <<>>]
Decoded(list) == [given |-> TRUE, list |-> list]

BroadcastResult(txHash, decodedMessages, result) ==
  [success |-> TRUE, txHash |-> txHash, decodedMessages |-> decodedMessages,
   responses |-> result]

\* broadcastSignedTx from the resolution of client.broadcastTx on: the code
\* check, the hash, the decoding, the returned object; every throw passes
\* through the catch block.
AfterBroadcast(result, registry) ==
  IF IsRejected(result) THEN Thrown(BroadcastCatch(RejectionError(result)))
  ELSE IF ~registry.given
    THEN Returned(BroadcastResult(TxHashOf(result), NotDecoded, result))
  ELSE LET d == extractAndDecodeMessages(result, registry.entries) IN
       IF d.kind = "throw" THEN Thrown(BroadcastCatch(d.val))
       ELSE Returned(BroadcastResult(TxHashOf(result), Decoded(d.val), result))

\* The decoder invocations of that same stretch.
DecoderCallsAfterBroadcast(result, registry) ==
  IF IsRejected(result) \/ ~registry.given \/ result.msgResponses.t # "array"
    THEN <<>>
    ELSE DecoderCalls(result.msgResponses.items, registry.entries)

\* The value raised inside the try block in that same stretch, if any.
CaughtAfterBroadcast(result, registry) ==
  IF IsRejected(result) THEN RejectionError(result)
  ELSE IF ~registry.given THEN NothingCaught
  ELSE LET d == extractAndDecodeMessages(result, registry.entries) IN
       IF d.kind = "throw" THEN d.val ELSE NothingCaught

\* A decoder lookup that caches a pass-through decoder for every typeUrl it
\* did not find.
EntriesAfterDecodingCaching(result, entries) ==
  entries \cup
    { [typeUrl |-> result.msgResponses.items[i].typeUrl[1], decoder |-> "decode"] :
        i \in { j \in 1..Len(result.msgResponses.items) :
                  /\ ~IsMissing(result.msgResponses.items[j].typeUrl)
                  /\ IsMissing(Lookup(entries, result.msgResponses.items[j].typeUrl)) } }

\* decodeProtobufMessage only reads the Map (messageRegistry.get): the
\* entries after the messages of a result were decoded.
EntriesAfterDecoding(result, entries) == entries

BInit ==
  /\ bpc = "idle"
  /\ bHex = <<>>
  /\ bRegistry = NoRegistry
  /\ bTxBytes = <<>>
  /\ bConn = "none"
  /\ bConnects = 0
  /\ bSubmitted = <<>>
  /\ bResult = NoResult
  /\ bDecoderCalls = <<>>
  /\ bCaught = NothingCaught
  /\ bOutcome = NoOutcome

\* broadcastSignedTx is called: validation, hex decoding, the dynamic import of
\* the client library (already loaded by index.ts) and the start of
\* StargateClient.connect.  The function never disconnects the client.
BBegin(hex, reg) ==
  /\ bHex' = hex
  /\ bRegistry' = reg
  /\ IF IsEmptyHex(hex)
       THEN /\ bCaught' = RequiredError
            /\ bOutcome' = Thrown(BroadcastCatch(RequiredError))
            /\ bpc' = "done"
            /\ UNCHANGED <<bTxBytes, bConnects>>
       ELSE /\ bTxBytes' = TxBytesOf(hex)
            /\ bConnects' = bConnects + 1
            /\ bpc' = "connecting"
            /\ UNCHANGED <<bCaught, bOutcome>>
  /\ UNCHANGED <<bConn, bSubmitted, bResult, bDecoderCalls>>

\* A caller other than the HTTP handler calls broadcastSignedTx.
BStart ==
  /\ bpc = "idle"
  /\ \E hex \in HexInputs, reg \in RegistryInputs : BBegin(hex, reg)
  /\ UNCHANGED <<qvars, cvars, hvars, registryEntries>>

\* A pipeline that answers a rejected connect with another connection attempt.
BConnectFailRetrying ==
  /\ bpc = "connecting"
  /\ bConnects < 3
  /\ bConnects' = bConnects + 1
  /\ UNCHANGED <<bpc, bHex, bRegistry, bTxBytes, bConn, bSubmitted, bResult,
                 bDecoderCalls, bCaught, bOutcome>>
  /\ UNCHANGED <<qvars, cvars, hvars, registryEntries>>

\* StargateClient.connect rejects.
BConnectFail ==
  /\ bpc = "connecting"
  /\ \E e \in ConnectFailures :
       /\ bCaught' = e
       /\ bOutcome' = Thrown(BroadcastCatch(e))
  /\ bpc' = "done"
  /\ UNCHANGED <<bHex, bRegistry, bTxBytes, bConn, bConnects, bSubmitted,
                 bResult, bDecoderCalls>>
  /\ UNCHANGED <<qvars, cvars, hvars, registryEntries>>

\* The client is connected: client.broadcastTx(txBytes) is started.
BConnected ==
  /\ bpc = "connecting"
  /\ bConn' = "open"
  /\ bSubmitted' = Append(bSubmitted, bTxBytes)
  /\ bpc' = "broadcasting"
  /\ UNCHANGED <<bHex, bRegistry, bTxBytes, bConnects, bResult, bDecoderCalls,
                 bCaught, bOutcome>>
  /\ UNCHANGED <<qvars, cvars, hvars, registryEntries>>

\* client.broadcastTx rejects.
BBroadcastFail ==
  /\ bpc = "broadcasting"
  /\ \E e \in BroadcastFailures :
       /\ bCaught' = e
       /\ bOutcome' = Thrown(BroadcastCatch(e))
  /\ bpc' = "done"
  /\ UNCHANGED <<bHex, bRegistry, bTxBytes, bConn, bConnects, bSubmitted,
                 bResult, bDecoderCalls>>
  /\ UNCHANGED <<qvars, cvars, hvars, registryEntries>>

\* client.broadcastTx resolves with the node's result.
BBroadcastResult ==
  /\ bpc = "broadcasting"
  /\ \E r \in NodeResults :
       /\ bResult' = r
       /\ bOutcome' = AfterBroadcast(r, bRegistry)
       /\ bDecoderCalls' = DecoderCallsAfterBroadcast(r, bRegistry)
       /\ bCaught' = CaughtAfterBroadcast(r, bRegistry)
       /\ registryEntries' =
            IF hpc = "awaiting" THEN EntriesAfterDecoding(r, registryEntries)
            ELSE registryEntries
  /\ bpc' = "done"
  /\ UNCHANGED <<bHex, bRegistry, bTxBytes, bConn, bConnects, bSubmitted>>
  /\ UNCHANGED <<qvars, cvars, hvars>>

BNext ==
  \/ BStart
  \/ BConnectFail
  \/ BConnected
  \/ BBroadcastFail
  \/ BBroadcastResult

\* ------------------------------------------------- byte-map reconstruction
\* The orders in which the keys 0..n-1 of a byte map may be enumerated.
Ascending(n) == [j \in 1..n |-> j - 1]
Descending(n) == [j \in 1..n |-> n - j]
Rotated(n) == [j \in 1..n |-> j % n]

KeyOrders(n) == {Ascending(n), Descending(n), Rotated(n)}

\* The byte stored under key i.
ByteSchemes ==
  { [i \in 0..MaxKeys |-> i + 1],
    [i \in 0..MaxKeys |-> 255 - i],
    [i \in 0..MaxKeys |-> (i * 37) % 256] }

\* The byte map with the keys "0".."n-1" enumerated in the given order.
ByteMapOf(order, bytes) ==
  [j \in 1..Len(order) |-> [k |-> DigitsOf(order[j]), v |-> bytes[order[j]]]]

ByteMapInputs ==
  { ByteMapOf(o, b) : o \in UNION {KeyOrders(n) : n \in 0..MaxKeys}, b \in ByteSchemes }

CInit ==
  /\ cpc = "idle"
  /\ cMap = <<>>
  /\ cBytes = <<>>

\* decimalBytesToUint8Array is called with a byte map.
CCall ==
  /\ cpc = "idle"
  /\ \E m \in ByteMapInputs : cMap' = m
  /\ cpc' = "called"
  /\ UNCHANGED cBytes
  /\ UNCHANGED <<qvars, bvars, hvars, registryEntries>>

\* It returns the rebuilt bytes.
CReturn ==
  /\ cpc = "called"
  /\ cBytes' = decimalBytesToUint8Array(cMap)
  /\ cpc' = "done"
  /\ UNCHANGED cMap
  /\ UNCHANGED <<qvars, bvars, hvars, registryEntries>>

CNext == CCall \/ CReturn

\* ------------------------------------------------------------ whole program
vars == <<qvars, bvars, cvars, hvars, registryEntries>>

HInit ==
  /\ hpc = "idle"
  /\ hBody = Missing
  /\ hCalls = 0
  /\ hResponses = <<>>
  /\ gResponses = [q \in QCalls |-> <<>>]
  /\ registryEntries = messageRegistry

Init == QInit /\ BInit /\ CInit /\ HInit

\* ============================================================ HTTP handlers
\* req.body.signedTxHex: absent, or a string.
PostBodies == {Missing} \cup {Some(h) : h \in HexInputs}

\* if (!signedTxHex): absent or the empty string.
IsFalsy(body) == IsMissing(body) \/ body[1] = <<>>

Response(status, body) == [status |-> status, body |-> body]

\* { status: 'error', message }
ErrorEnvelope(message) == [status |-> "error", message |-> message]

\* res.status(400).json({ status: 'error', message: 'signedTxHex required' })
MissingParameterResponse == Response(400, ErrorEnvelope(<<"signedTxHex required">>))

\* JSON.stringify(result, replacer): a property whose value is undefined is
\* left out of the text.
JsonOf(result) ==
  IF result.decodedMessages.given
    THEN [success |-> result.success, txHash |-> result.txHash,
          decodedMessages |-> result.decodedMessages.list,
          responses |-> result.responses]
    ELSE [success |-> result.success, txHash |-> result.txHash,
          responses |-> result.responses]

\* A handler that answers 200 whatever the pipeline did.
PostResponseAlwaysOk(outcome) ==
  Response(200, IF outcome.kind = "return" THEN JsonOf(outcome.val)
                ELSE ErrorEnvelope(MessageOf(outcome.val)))

\* The try/catch of the POST handler once broadcastSignedTx has settled:
\* res.send(JSON.stringify(result, ...)) or res.status(500).json({...}).
PostResponse(outcome) ==
  IF outcome.kind = "return" THEN Response(200, JsonOf(outcome.val))
  ELSE Response(500, ErrorEnvelope(MessageOf(outcome.val)))

\* The try/catch of the GET handler once queryAny has settled.
GetResponse(outcome) ==
  IF outcome.kind = "return"
    THEN Response(200, [status |-> "success", data |-> outcome.val])
    ELSE Response(500, ErrorEnvelope(MessageOf(outcome.val)))

\* POST /api/upload/create-presigned arrives: the 400 answer, or the call of
\* broadcastSignedTx with the process-wide messageRegistry up to its first
\* await.
HPost ==
  /\ hpc = "idle"
  /\ bpc = "idle"
  /\ \E body \in PostBodies :
       /\ hBody' = body
       /\ IF IsFalsy(body)
            THEN /\ hResponses' = Append(hResponses, MissingParameterResponse)
                 /\ hpc' = "done"
                 /\ UNCHANGED <<hCalls, bvars>>
            ELSE /\ BBegin(body[1], Registry(registryEntries))
                 /\ hCalls' = hCalls + 1
                 /\ hpc' = "awaiting"
                 /\ UNCHANGED hResponses
  /\ UNCHANGED <<gResponses, qvars, cvars, registryEntries>>

\* broadcastSignedTx has settled: the handler sends its response.
HPostRespond ==
  /\ hpc = "awaiting"
  /\ bpc = "done"
  /\ hResponses' = Append(hResponses, PostResponse(bOutcome))
  /\ hpc' = "done"
  /\ UNCHANGED <<hBody, hCalls, gResponses, bvars, qvars, cvars, registryEntries>>

\* GET /get/create-presigned/GetRegistry arrives:
\* queryAny(QueryRegClient, 'GetRegistry', [request]) up to its first await.
HGet(q) ==
  /\ qpc[q] = "idle"
  /\ \E s \in Services : QBegin(q, s, "GetRegistry", 1)
  /\ UNCHANGED <<bvars, cvars, hvars, registryEntries>>

\* queryAny has settled: the handler sends its response.
HGetRespond(q) ==
  /\ qpc[q] = "done"
  /\ gResponses[q] = <<>>
  /\ gResponses' = [gResponses EXCEPT ![q] = Append(@, GetResponse(qOutcome[q]))]
  /\ UNCHANGED <<hpc, hBody, hCalls, hResponses, bvars, qvars, cvars, registryEntries>>

\* One POST request from its arrival to its response.
HPostNext ==
  \/ HPost
  \/ BConnectFail
  \/ BConnected
  \/ BBroadcastFail
  \/ BBroadcastResult
  \/ HPostRespond

\* The GET request that is in flight while the POST request is served.
GetRequests == {q \in QCalls : q = 1}

\* The requests the server handles, interleaved at their awaits.
HNext ==
  \/ HPostNext
  \/ \E q \in GetRequests :
       \/ HGet(q)
       \/ QConnectFail(q)
       \/ QBuildFail(q)
       \/ QConnected(q)
       \/ QCandOk(q)
       \/ QCandFail(q)
       \/ HGetRespond(q)

Next == QNext \/ BNext \/ CNext \/ HNext

\* Every caller and every request together.
Spec == Init /\ [][Next]_vars

\* The query dispatcher alone, and the broadcast pipeline alone.
SpecQuery == Init /\ [][QNext]_vars

SpecBroadcast == Init /\ [][BNext]_vars

\* The HTTP server: a POST and a GET request in flight together.
SpecServer == Init /\ [][HNext]_vars

\* The POST request alone.
SpecPost == Init /\ [][HPostNext]_vars

\* The byte-map reconstruction alone.
SpecCodec == Init /\ [][CNext]_vars

\* ================================================================== claims
Contains(msg, token) == \E i \in 1..Len(msg) : msg[i] = token

IsFailure(res) == res.t \in {"Error", "undefined", "null"}

\* C1: the candidates are invoked strictly in list order, each at most once;
\* every candidate invoked before the latest one failed, so nothing is invoked
\* after a success; a call that returns returns what the latest invoked
\* candidate produced, and a candidate that succeeds ends the call with it.
C1_InOrderFirstSuccess ==
  \A q \in QCalls :
    LET log == qLog[q] IN
    /\ Len(log) <= Len(qCands[q])
    /\ \A k \in 1..Len(log) : log[k].cand = qCands[q][k]
    /\ \A k \in 1..(Len(log) - 1) : IsFailure(log[k].res)
    /\ qOutcome[q].kind = "return" =>
         /\ log # <<>>
         /\ qOutcome[q].val = log[Len(log)].res
         /\ qOutcome[q].val = CandResponse(qCands[q][Len(log)])
    /\ (qpc[q] = "done" /\ log # <<>> /\ ~IsFailure(log[Len(log)].res)) =>
         qOutcome[q].kind = "return"

\* Candidates [A, B]: A was invoked first and failed, B succeeded, and the
\* call returned B's result.
C1_Witness ==
  \E q \in QCalls :
    /\ qpc[q] = "done"
    /\ Len(qCands[q]) = 2
    /\ Len(qLog[q]) = 2
    /\ qLog[q][1].cand = 1 /\ IsFailure(qLog[q][1].res)
    /\ qOutcome[q] = Returned(CandResponse(2))

\* C2: a finished call whose connection was opened has invoked the release
\* function exactly once.
C2_ReleasedExactlyOnce ==
  \A q \in QCalls :
    (qpc[q] = "done" /\ qConn[q] # "none") => qCloses[q] = 1

\* C3: when every candidate failed, the call throws what the last candidate
\* raised; with no candidates it throws the generic error and the method was
\* never invoked.
C3_LastErrorPropagated ==
  \A q \in QCalls :
    (/\ qpc[q] = "done"
     /\ qOutcome[q].kind = "throw"
     /\ qConn[q] = "closed"
     /\ ResolvesCallable(qService[q], qMethod[q]))
    => IF qCands[q] = <<>>
         THEN qOutcome[q].val = AllFailedError /\ qLog[q] = <<>>
         ELSE /\ Len(qLog[q]) = Len(qCands[q])
              /\ qOutcome[q].val = qLog[q][Len(qLog[q])].res

\* Every member name of the service, own or inherited.
MemberNames(service) ==
  {m.name : m \in OwnMembers(service)} \cup {m.name : m \in service.proto}

\* The names a method-not-found message lists after "Available: ".
ListedNames(msg) == {msg[i] : i \in 4..Len(msg)} \ {", "}

\* C4: a call with a method name that does not resolve as callable throws
\* before any candidate is invoked, and the names its message lists are
\* exactly the names that resolve as callable on the service.
C4_ListsExactlyCallable ==
  \A q \in QCalls :
    (/\ qpc[q] = "done"
     /\ qConn[q] = "closed"
     /\ ~ResolvesCallable(qService[q], qMethod[q]))
    => /\ qOutcome[q].kind = "throw"
       /\ qLog[q] = <<>>
       /\ ListedNames(qOutcome[q].val.v)
            = {n \in MemberNames(qService[q]) : ResolvesCallable(qService[q], n)}

\* C5: after a node result with a nonzero code the call has thrown an error
\* whose message holds the code and, when the node sent one, the rawLog text,
\* and no decoder was invoked.
C5_RejectionSurfaced ==
  (bpc = "done" /\ bResult # NoResult /\ bResult.code # 0)
  => /\ bOutcome.kind = "throw"
     /\ bOutcome.val.t = "Error"
     /\ Contains(bOutcome.val.v, ToString(bResult.code))
     /\ ~IsMissing(bResult.rawLog) => Contains(bOutcome.val.v, bResult.rawLog[1])
     /\ bDecoderCalls = <<>>

\* Code 5 with rawLog "insufficient funds" was thrown.
C5_Witness ==
  /\ bpc = "done"
  /\ bResult # NoResult
  /\ bResult.code = 5
  /\ bResult.rawLog = Some("insufficient funds")
  /\ bOutcome.kind = "throw"

HashesMissing(result) ==
  IsMissing(result.transactionHash) /\ IsMissing(result.txhash) /\ IsMissing(result.hash)

\* C6: a returned BroadcastResult has success = true, comes from a node result
\* with code 0 and carries that result as responses; when the node result has
\* none of the three identifier fields the txHash is the empty string, and the
\* missing identifier alone never makes the call throw.
C6_ReturnedResultWellFormed ==
  /\ bOutcome.kind = "return" =>
       /\ bOutcome.val.success = TRUE
       /\ bResult # NoResult
       /\ bResult.code = 0
       /\ bOutcome.val.responses = bResult
       /\ HashesMissing(bResult) => bOutcome.val.txHash = ""
  /\ (/\ bpc = "done"
      /\ bResult # NoResult
      /\ bResult.code = 0
      /\ HashesMissing(bResult)
      /\ (~bRegistry.given \/ bResult.msgResponses.t # "array"))
     => bOutcome.kind = "return"

\* A result without any identifier field was returned with txHash "".
C6_Witness ==
  /\ bOutcome.kind = "return"
  /\ HashesMissing(bResult)
  /\ bOutcome.val.txHash = ""
  /\ bOutcome.val.responses.code = 0

\* Odd length, or a character that is no hex digit.
IsMalformedHex(s) == Len(s) % 2 = 1 \/ \E i \in 1..Len(s) : HexValue(s[i]) < 0

\* C7: a hex string that is malformed once the 0x prefix is stripped is never
\* submitted to the node, in whole or in part, and the call ends with an error.
C7_MalformedHexRejected ==
  (bpc # "idle" /\ IsMalformedHex(Strip0x(bHex)))
  => /\ bSubmitted = <<>>
     /\ bpc = "done" => bOutcome.kind = "throw"

\* C8: a call with an empty hexTx has ended with the validation error without
\* a connection attempt, an open connection or a submission.
C8_EmptyHexBeforeIO ==
  (bpc # "idle" /\ bHex = <<>>)
  => /\ bpc = "done"
     /\ bOutcome = Thrown(Err(<<"signedTxHex is required">>))
     /\ bConnects = 0
     /\ bConn = "none"
     /\ bSubmitted = <<>>

\* A call with the empty string has ended.
C8_Witness ==
  /\ bpc = "done"
  /\ bHex = <<>>
  /\ bOutcome.kind = "throw"
  /\ bConnects = 0

\* The msgResponses elements decodeProtobufMessage is applied to: objects
\* whose value is a byte map.
IsDecodable(el) == el.t = "object" /\ el.value.t = "map"

\* C9: decodeProtobufMessage never raises: applied to any element of a node
\* result under any supplied registry it returns the decoder's value or a
\* placeholder {error, rawBytes} whose rawBytes are the input bytes.
C9_DecodeNeverRaises ==
  (/\ bpc = "done"
   /\ bResult # NoResult
   /\ bResult.code = 0
   /\ bRegistry.given
   /\ bResult.msgResponses.t = "array")
  => \A i \in 1..Len(bResult.msgResponses.items) :
       LET el == bResult.msgResponses.items[i] IN
       IsDecodable(el) =>
         LET bytes == decimalBytesToUint8Array(el.value.entries)
             d == decodeProtobufMessage(el.typeUrl, bytes, bRegistry.entries)
         IN /\ d.kind = "return"
            /\ \/ d.val.t = "decoded"
               \/ d.val.t = "placeholder" /\ d.val.rawBytes = bytes

\* C10: with a registry and a code-0 result the call returns, and
\* decodedMessages has one entry per element of msgResponses, in order, each
\* with the typeUrl of its element.
C10_OneEntryPerResponse ==
  (/\ bpc = "done"
   /\ bResult # NoResult
   /\ bResult.code = 0
   /\ bRegistry.given
   /\ bResult.msgResponses.t = "array")
  => /\ bOutcome.kind = "return"
     /\ bOutcome.val.decodedMessages.given
     /\ Len(bOutcome.val.decodedMessages.list) = Len(bResult.msgResponses.items)
     /\ \A i \in 1..Len(bResult.msgResponses.items) :
          ~IsMissing(bResult.msgResponses.items[i].typeUrl) =>
            bOutcome.val.decodedMessages.list[i].typeUrl
              = bResult.msgResponses.items[i].typeUrl

\* C11: the bytes are rebuilt in numeric key order: for a map with the keys
\* "0".."n-1", enumerated in any order, the result has length n and its
\* element i is the value stored under key i.
C11_NumericKeyOrder ==
  cpc = "done" =>
    /\ Len(cBytes) = Len(cMap)
    /\ \A j \in 1..Len(cMap) : cBytes[NumberOf(cMap[j].k) + 1] = cMap[j].v

\* Eleven keys, "10" among them, enumerated in ascending order: element 10 is
\* the value under "10".
C11_Witness ==
  /\ cpc = "done"
  /\ Len(cMap) = 11
  /\ cMap[11] = [k |-> <<1, 0>>, v |-> 11]
  /\ cBytes[11] = 11

\* C12: the txHash of a returned result is the first non-missing value among
\* the node result's transactionHash, txhash and hash, in that order, and the
\* empty string when all three are missing.
C12_FirstPresentHash ==
  bOutcome.kind = "return" =>
    LET h == bOutcome.val.txHash IN
    /\ ~IsMissing(bResult.transactionHash) => h = bResult.transactionHash[1]
    /\ (IsMissing(bResult.transactionHash) /\ ~IsMissing(bResult.txhash))
         => h = bResult.txhash[1]
    /\ (/\ IsMissing(bResult.transactionHash)
        /\ IsMissing(bResult.txhash)
        /\ ~IsMissing(bResult.hash))
         => h = bResult.hash[1]
    /\ HashesMissing(bResult) => h = ""

\* transactionHash is missing, txhash and hash are present: txhash wins.
C12_Witness ==
  /\ bOutcome.kind = "return"
  /\ IsMissing(bResult.transactionHash)
  /\ bResult.txhash = Some("HASH-B")
  /\ bResult.hash = Some("HASH-C")
  /\ bOutcome.val.txHash = "HASH-B"

\* C13: without a registry a code-0 result is returned with decodedMessages
\* undefined and no decoder is ever invoked; with a registry and a code-0
\* result whose msgResponses is absent or not an array the call still returns,
\* with decodedMessages the empty list.
C13_RegistryOmittedOrNoResponses ==
  /\ ~bRegistry.given => bDecoderCalls = <<>>
  /\ (bpc = "done" /\ bResult # NoResult /\ bResult.code = 0 /\ ~bRegistry.given)
     => /\ bOutcome.kind = "return"
        /\ bOutcome.val.decodedMessages = NotDecoded
  /\ (/\ bpc = "done"
      /\ bResult # NoResult
      /\ bResult.code = 0
      /\ bRegistry.given
      /\ bResult.msgResponses.t # "array")
     => /\ bOutcome.kind = "return"
        /\ bOutcome.val.success = TRUE
        /\ bOutcome.val.decodedMessages = Decoded(<<>>)

\* A registry was supplied and msgResponses is not an array: the call
\* returned an empty decodedMessages list.
C13_Witness ==
  /\ bpc = "done"
  /\ bRegistry.given
  /\ bResult # NoResult
  /\ bResult.msgResponses = NotAnArray
  /\ bOutcome.kind = "return"
  /\ bOutcome.val.decodedMessages = Decoded(<<>>)

\* The registry was omitted and the result carries message responses: the
\* call returned decodedMessages undefined.
C13_WitnessOmitted ==
  /\ bpc = "done"
  /\ ~bRegistry.given
  /\ bResult # NoResult
  /\ bResult.msgResponses.t = "array"
  /\ bResult.msgResponses.items # <<>>
  /\ bOutcome.kind = "return"
  /\ bOutcome.val.decodedMessages = NotDecoded

\* C14: one call of broadcastSignedTx connects at most once and submits the
\* transaction bytes at most once; a call that ended after a rejected connect,
\* a rejected submission or a nonzero result code ended with a throw, having
\* made exactly the attempts up to that point and no further one.
C14_SingleAttempt ==
  /\ bConnects <= 1
  /\ Len(bSubmitted) <= 1
  /\ (bpc = "done" /\ bConnects = 1 /\ bConn = "none")
     => /\ bOutcome.kind = "throw"
        /\ bSubmitted = <<>>
  /\ (bpc = "done" /\ bConn = "open" /\ bResult = NoResult)
     => /\ bOutcome.kind = "throw"
        /\ bConnects = 1
        /\ bSubmitted = <<bTxBytes>>
  /\ (bpc = "done" /\ bResult # NoResult /\ bResult.code # 0)
     => /\ bOutcome.kind = "throw"
        /\ bConnects = 1
        /\ bSubmitted = <<bTxBytes>>

\* A submission was rejected by the transport: one connection, one
\* submission, and the call threw.
C14_Witness ==
  /\ bpc = "done"
  /\ bConn = "open"
  /\ bResult = NoResult
  /\ bConnects = 1
  /\ Len(bSubmitted) = 1
  /\ bOutcome.kind = "throw"

\* C15: the POST handler answers 400 without calling broadcastSignedTx when
\* signedTxHex is missing (absent or empty, the handler's !signedTxHex);
\* otherwise it calls broadcastSignedTx exactly once and answers 200 with the
\* serialised BroadcastResult when the call returned, 500 with
\* {status:'error', message} carrying the thrown error's message when it
\* threw; one response is sent per request, none before the call has settled.
C15_PostHandlerResponses ==
  /\ hCalls <= 1
  /\ Len(hResponses) <= 1
  /\ hpc = "awaiting" => hCalls = 1 /\ hResponses = <<>>
  /\ hpc = "done" => Len(hResponses) = 1
  /\ (hpc = "done" /\ (IsMissing(hBody) \/ hBody = Some(<<>>)))
     => /\ hCalls = 0
        /\ bpc = "idle"
        /\ hResponses[1].status = 400
        /\ hResponses[1].body = [status |-> "error", message |-> <<"signedTxHex required">>]
  /\ (hpc = "done" /\ ~(IsMissing(hBody) \/ hBody = Some(<<>>)))
     => /\ hCalls = 1
        /\ bpc = "done"
        /\ bHex = hBody[1]
        /\ bOutcome.kind = "return"
             => /\ hResponses[1].status = 200
                /\ hResponses[1].body.success = TRUE
                /\ hResponses[1].body.txHash = bOutcome.val.txHash
                /\ hResponses[1].body.responses = bOutcome.val.responses
                /\ hResponses[1].body.decodedMessages = bOutcome.val.decodedMessages.list
        /\ bOutcome.kind = "throw"
             => /\ hResponses[1].status = 500
                /\ hResponses[1].body = [status |-> "error", message |-> bOutcome.val.v]

\* The node rejected the transaction and the handler answered 500 with the
\* rejection message.
C15_Witness ==
  /\ hpc = "done"
  /\ hCalls = 1
  /\ bResult # NoResult
  /\ bResult.code # 0
  /\ hResponses = <<[status |-> 500,
                     body |-> [status |-> "error", message |-> bOutcome.val.v]]>>

\* The missing-parameter answer, and the answer to a returned result.
C15_WitnessMissing ==
  /\ hpc = "done"
  /\ IsMissing(hBody)
  /\ hCalls = 0
  /\ Len(hResponses) = 1
  /\ hResponses[1].status = 400

C15_WitnessReturned ==
  /\ hpc = "done"
  /\ bOutcome.kind = "return"
  /\ Len(hResponses) = 1
  /\ hResponses[1].status = 200

\* C16: broadcastSignedTx ends with a complete result or with a thrown Error:
\* whatever was raised inside the call, the call throws an Error whose message
\* is the raised value's message, or 'Broadcast failed' when that message is
\* empty or absent; a returned result carries success, txHash and responses.
C16_ThrowNormalised ==
  /\ bpc = "done" => bOutcome.kind \in {"return", "throw"}
  /\ bOutcome.kind = "return"
       => /\ bCaught = NothingCaught
          /\ bOutcome.val.success = TRUE
          /\ bOutcome.val.responses = bResult
          /\ bOutcome.val.txHash = TxHashOf(bResult)
  /\ bCaught # NothingCaught
       => /\ bOutcome.kind = "throw"
          /\ bOutcome.val.t = "Error"
          /\ bOutcome.val.v =
               IF bCaught.t \in {"undefined", "null"} \/ bCaught.v = <<>>
                 THEN <<"Broadcast failed">>
                 ELSE bCaught.v

\* C17: each queryAny call connects once and closes once at most, a query
\* method is only awaited on the call's own open connection, and once every
\* call has finished no query connection is open.
C17_NoQueryConnectionLeft ==
  /\ \A q \in QCalls :
       /\ qConnects[q] <= 1
       /\ qCloses[q] <= 1
       /\ qpc[q] = "awaiting" => qConn[q] = "open"
       /\ qConn[q] = "closed" => qCloses[q] = 1
  /\ (\A q \in QCalls : qpc[q] = "done")
       => \A q \in QCalls : qConn[q] # "open"

\* C18: a queryAny call whose connect was rejected throws the connection
\* error after one connection attempt, with no candidate invoked, without the
\* method lookup (the error is the connection error even when the method does
\* not resolve) and without invoking the release function.
C18_ConnectFailurePropagates ==
  \A q \in QCalls :
    (qpc[q] = "done" /\ qConn[q] = "none")
      => /\ qOutcome[q] = Thrown(ConnectError)
         /\ qConnects[q] = 1
         /\ qLog[q] = <<>>
         /\ qIdx[q] = 0
         /\ qCloses[q] = 0

\* The connect of a call for a method that does not resolve was rejected: the
\* connection error was thrown, not the method-not-found error.
C18_Witness ==
  \E q \in QCalls :
    /\ qpc[q] = "done"
    /\ qConn[q] = "none"
    /\ qMethod[q] = "NoSuchMethod"
    /\ qOutcome[q] = Thrown(ConnectError)
    /\ qCloses[q] = 0

\* C19: when a broadcastSignedTx call has ended, the connection it opened is
\* no longer open.
C19_BroadcastConnectionReleased ==
  bpc = "done" => bConn # "open"

\* C20: the process-wide registry holds the entries it was constructed with,
\* whatever requests are in flight or were served, and the POST handler's
\* call of broadcastSignedTx was given exactly those entries.
C20_RegistryReadOnly ==
  /\ registryEntries = messageRegistry
  /\ \A e \in registryEntries :
       Lookup(registryEntries, Some(e.typeUrl)) = Some("decode")
  /\ \A url \in {MalformedUrl, RejectingUrl, UnknownUrl} :
       IsMissing(Lookup(registryEntries, Some(url)))
  /\ hpc \in {"awaiting", "done"} /\ hCalls = 1
       => bRegistry = Registry(messageRegistry)

\* A POST request whose result held a message of an unregistered type was
\* answered, and a GET request was answered too.
C20_Witness ==
  /\ hpc = "done"
  /\ bOutcome.kind = "return"
  /\ \E i \in 1..Len(bResult.msgResponses.items) :
       bResult.msgResponses.items[i].typeUrl = Some(UnknownUrl)
  /\ \E q \in QCalls : gResponses[q] # <<>>
  /\ registryEntries = messageRegistry
====
